---- MODULE Spec2Model ----
(***************************************************************************)
(* A model of the User facade of src/API/User/User.ts: one User object     *)
(* wrapping a fetched UserData record and a TwitchClient reference, its    *)
(* getters, and its async methods.  Every async method is a little state   *)
(* machine: it issues a request to a collaborator (the client's resource   *)
(* managers, a ChannelPlaceholder, the authenticated user), suspends at    *)
(* the await, and is resumed with the settled promise.  The collaborators  *)
(* are the environment: they may settle any request with any outcome.      *)
(***************************************************************************)
EXTENDS Integers, Sequences, FiniteSets, TLC

VARIABLES
    fetched,    \* the UserData record and client handed to the constructor
    _data,      \* User._data
    _client,    \* User._client
    calls       \* the method calls made on the object, in call order

vars == <<fetched, _data, _client, calls>>

\* Upper limit on the number of method calls made on the object.
MaxCalls == 2

(***************************************************************************)
(* Values.  Every JavaScript value is a record with a type tag; object     *)
(* references are told apart by their id.                                  *)
(***************************************************************************)
Val(t, i) == [type |-> t, id |-> i]

Undefined == Val("undefined", "")
Str(s) == Val("string", s)
Bool(b) == Val("boolean", IF b THEN "true" ELSE "false")

\* UserData records a resource manager may hand to the constructor.
UserData ==
    { [_id |-> "44322889", bio |-> "hi", created_at |-> "2013-06-03T19:12:02Z",
       name |-> "sassy", display_name |-> "Sassy", logo |-> "https://cdn/sassy.png",
       type |-> "user", updated_at |-> "2016-12-14T01:01:44Z"],
      [_id |-> "1", bio |-> "", created_at |-> "2007-05-22T10:37:47Z",
       name |-> "me", display_name |-> "ME", logo |-> "https://cdn/me.png",
       type |-> "staff", updated_at |-> "2017-01-01T00:00:00Z"] }

Clients == {"client"}

\* UserIdResolvable arguments of the methods that take a channel.
Channels == {"channelX", "channelY"}

\* The channel used where every method of the object interleaves with every other.
OneChannel == {"channelX"}

\* The error classes the file imports, and one class for everything else a
\* collaborator may throw (transport, authentication).
NoSubscriptionProgram == "NoSubscriptionProgram"
NotSubscribed == "NotSubscribed"
NotFollowing == "NotFollowing"
HTTPStatusCodeError == "HTTPStatusCodeError"

ErrorClasses == {NoSubscriptionProgram, NotSubscribed, NotFollowing, HTTPStatusCodeError}

Error(cls) == Val(cls, "error")

\* e instanceof cls; the imported classes do not extend one another.
InstanceOf(e, cls) == e.type = cls

(***************************************************************************)
(* Promises: pending, or settled with a value (resolved) or an error       *)
(* (rejected).                                                             *)
(***************************************************************************)
Pending == [status |-> "pending", value |-> Undefined]
Resolved(v) == [status |-> "resolved", value |-> v]
Rejected(e) == [status |-> "rejected", value |-> e]

Settled(p) == p.status # "pending"

\* A request to a collaborator: receiver.op(args), and the promise it returned.
Request(receiver, op, args) ==
    [receiver |-> receiver, op |-> op, args |-> args, response |-> Pending]

\* The object itself, as passed to collaborators (`this`).
This == Val("User", _data._id)

\* The client reference as the receiver of manager calls.
ClientRef(c) == Val("TwitchClient", c)

\* What the collaborators may answer.  getSubscriptionData and
\* getFollowedChannel may fail with any error class; the others succeed or
\* fail with a transport error.
SuccessValues(op) ==
    CASE op = "channels.getChannel" -> {Val("Channel", "c1")}
      [] op = "getStream" -> {Val("Stream", "s1")}
      [] op = "users.getSubscriptionData" -> {Val("UserSubscription", "sub1")}
      [] op = "users.getFollowedChannels" -> {Val("UserFollow[]", "page1")}
      [] op = "users.getFollowedChannel" -> {Val("UserFollow", "f1")}
      [] op = "users.getMe" -> {Val("PrivilegedUser", "1")}
      [] op = "followChannel" -> {Val("UserFollow", "f2")}
      [] op = "unfollowChannel" -> {Undefined}

FailureClasses(op) ==
    IF op \in {"users.getSubscriptionData", "users.getFollowedChannel"}
    THEN ErrorClasses
    ELSE {HTTPStatusCodeError}

Outcomes(op) ==
    {Resolved(v) : v \in SuccessValues(op)} \cup {Rejected(Error(k)) : k \in FailureClasses(op)}

(***************************************************************************)
(* Construction.                                                           *)
(***************************************************************************)
constructor(data, client) == [_data |-> data, _client |-> client]

Init ==
    /\ fetched \in [data : UserData, client : Clients]
    /\ _data = constructor(fetched.data, fetched.client)._data
    /\ _client = constructor(fetched.data, fetched.client)._client
    /\ calls = <<>>

(***************************************************************************)
(* Method calls.  A call records the method, its channel argument ("-" when*)
(* it takes none), where it is suspended, the requests it has issued so    *)
(* far, and the promise (or, for a getter, the value) it handed back.      *)
(***************************************************************************)
Call(method, channel, pc, reqs, result) ==
    [method |-> method, channel |-> channel, pc |-> pc, reqs |-> reqs, result |-> result]

\* A getter or other synchronous method: it returns within the call.
SyncCall(method, value) ==
    /\ Len(calls) < MaxCalls
    /\ calls' = Append(calls, Call(method, "-", "done", <<>>, Resolved(value)))
    /\ UNCHANGED <<fetched, _data, _client>>

\* An async method up to its first suspension: one request is in flight.
AsyncCall(method, channel, req) ==
    /\ Len(calls) < MaxCalls
    /\ calls' = Append(calls, Call(method, channel, "await", <<req>>, Pending))
    /\ UNCHANGED <<fetched, _data, _client>>

\* The call is suspended at `pc`, and the request it waits for is settled.
Resumable(c, method, pc) ==
    /\ c \in 1..Len(calls)
    /\ calls[c].method = method
    /\ calls[c].pc = pc
    /\ Settled(calls[c].reqs[Len(calls[c].reqs)].response)

\* The promise the call is suspended on.
Awaited(c) == calls[c].reqs[Len(calls[c].reqs)].response

\* A call that refreshes the backing record from the channel it fetched.
Finish_Refresh(c, p) ==
    /\ calls' = [calls EXCEPT ![c].pc = "done", ![c].result = p]
    /\ _data' = IF p.status = "resolved" /\ p.value.type = "Channel"
                THEN [_data EXCEPT !.display_name = p.value.id]
                ELSE _data
    /\ UNCHANGED <<fetched, _client>>

\* The call finishes: its promise settles as `p`.
Finish(c, p) ==
    /\ calls' = [calls EXCEPT ![c].pc = "done", ![c].result = p]
    /\ UNCHANGED <<fetched, _data, _client>>

\* An async function that turns every rejection into an undefined result.
ReturnPromise_Swallow(p) == IF p.status = "rejected" THEN Resolved(Undefined) ELSE p

\* `return <promise>` in an async function: the call settles as the promise does.
ReturnPromise(p) == p

(***************************************************************************)
(* Getters.                                                                *)
(***************************************************************************)
\* displayName returning the login name.
displayName_AsName == _data.name

cacheKey == _data._id
id == _data._id
userName == _data.name
name == _data.name
displayName == _data.display_name
logoUrl == _data.logo

Get_cacheKey == SyncCall("cacheKey", Str(cacheKey))
Get_id == SyncCall("id", Str(id))
Get_userName == SyncCall("userName", Str(userName))
Get_name == SyncCall("name", Str(name))
Get_displayName == SyncCall("displayName", Str(displayName))
Get_logoUrl == SyncCall("logoUrl", Str(logoUrl))

(***************************************************************************)
(* getChannelPlaceholder, getChannel, getStream.                           *)
(***************************************************************************)
\* A placeholder built from the login name instead of the id.
getChannelPlaceholder_ByName == [type |-> "ChannelPlaceholder", id |-> _data.name, client |-> _client]

\* new ChannelPlaceholder(this._data._id, this._client)
ChannelPlaceholder(i, client) == [type |-> "ChannelPlaceholder", id |-> i, client |-> client]

getChannelPlaceholder == ChannelPlaceholder(_data._id, _client)

Call_getChannelPlaceholder == SyncCall("getChannelPlaceholder", getChannelPlaceholder)

getChannel_request == Request(ClientRef(_client), "channels.getChannel", <<This>>)

getChannel == AsyncCall("getChannel", "-", getChannel_request)

getChannel_return(c) ==
    /\ Resumable(c, "getChannel", "await")
    /\ Finish(c, ReturnPromise(Awaited(c)))

getStream_request == Request(getChannelPlaceholder, "getStream", <<>>)

getStream == AsyncCall("getStream", "-", getStream_request)

getStream_return(c) ==
    /\ Resumable(c, "getStream", "await")
    /\ Finish(c, ReturnPromise(Awaited(c)))

(***************************************************************************)
(* getSubscriptionTo, isSubscribedTo.                                      *)
(***************************************************************************)
getSubscriptionTo_request(channel) ==
    Request(ClientRef(_client), "users.getSubscriptionData", <<This, Str(channel)>>)

getSubscriptionTo(channel) ==
    AsyncCall("getSubscriptionTo", channel, getSubscriptionTo_request(channel))

getSubscriptionTo_return(c) ==
    /\ Resumable(c, "getSubscriptionTo", "await")
    /\ Finish(c, ReturnPromise(Awaited(c)))

\* isSubscribedTo with a catch that swallows every error.
isSubscribedTo_classify_CatchAll(p) ==
    IF p.status = "resolved" THEN Resolved(Bool(TRUE)) ELSE Resolved(Bool(FALSE))

\* The try/catch around `await this.getSubscriptionTo(channel)`, given the
\* settled promise of getSubscriptionTo.
isSubscribedTo_classify(p) ==
    IF p.status = "resolved"
    THEN Resolved(Bool(TRUE))
    ELSE IF InstanceOf(p.value, NoSubscriptionProgram) \/ InstanceOf(p.value, NotSubscribed)
         THEN Resolved(Bool(FALSE))
         ELSE Rejected(p.value)

\* isSubscribedTo resumed by the first call's promise instead of its own.
isSubscribedTo_resume_Shared(c) ==
    /\ c \in 1..Len(calls)
    /\ calls[c].method = "isSubscribedTo"
    /\ calls[c].pc = "await"
    /\ calls[1].reqs # <<>>
    /\ Settled(calls[1].reqs[1].response)
    /\ calls' = [calls EXCEPT ![c].pc = "done",
                              ![c].result = isSubscribedTo_classify(calls[1].reqs[1].response)]
    /\ UNCHANGED <<fetched, _data, _client>>

\* isSubscribedTo that asks again after an unclassified error.
isSubscribedTo_resume_Retry(c) ==
    /\ c \in 1..Len(calls)
    /\ calls[c].method = "isSubscribedTo"
    /\ calls[c].pc = "await"
    /\ Settled(calls[c].reqs[Len(calls[c].reqs)].response)
    /\ LET p == calls[c].reqs[Len(calls[c].reqs)].response IN
       IF Len(calls[c].reqs) = 1 /\ isSubscribedTo_classify(p).status = "rejected"
       THEN calls' = [calls EXCEPT ![c].reqs =
                          Append(@, getSubscriptionTo_request(calls[c].channel))]
       ELSE calls' = [calls EXCEPT ![c].pc = "done",
                                   ![c].result = isSubscribedTo_classify(p)]
    /\ UNCHANGED <<fetched, _data, _client>>

isSubscribedTo(channel) ==
    AsyncCall("isSubscribedTo", channel, getSubscriptionTo_request(channel))

isSubscribedTo_resume(c) ==
    /\ Resumable(c, "isSubscribedTo", "await")
    /\ Finish(c, isSubscribedTo_classify(ReturnPromise(Awaited(c))))

(***************************************************************************)
(* getFollows, getFollowTo, follows.                                       *)
(***************************************************************************)
\* The optional page, limit, orderBy and orderDirection arguments.
FollowsArgs ==
    { <<Undefined, Undefined, Undefined, Undefined>>,
      <<Val("number", "2"), Val("number", "25"), Str("created_at"), Str("desc")>> }

getFollows_request(args) ==
    Request(ClientRef(_client), "users.getFollowedChannels", <<This>> \o args)

getFollows(args) == AsyncCall("getFollows", "-", getFollows_request(args))

getFollows_return(c) ==
    /\ Resumable(c, "getFollows", "await")
    /\ Finish(c, ReturnPromise(Awaited(c)))

getFollowTo_request(channel) ==
    Request(ClientRef(_client), "users.getFollowedChannel", <<This, Str(channel)>>)

getFollowTo(channel) == AsyncCall("getFollowTo", channel, getFollowTo_request(channel))

getFollowTo_return(c) ==
    /\ Resumable(c, "getFollowTo", "await")
    /\ Finish(c, ReturnPromise(Awaited(c)))

\* follows with the catch of isSubscribedTo.
follows_classify_AsSubscription(p) ==
    IF p.status = "resolved"
    THEN Resolved(Bool(TRUE))
    ELSE IF \/ InstanceOf(p.value, NotFollowing)
            \/ InstanceOf(p.value, NoSubscriptionProgram)
            \/ InstanceOf(p.value, NotSubscribed)
         THEN Resolved(Bool(FALSE))
         ELSE Rejected(p.value)

\* The try/catch around `await this.getFollowTo(channel)`.
follows_classify(p) ==
    IF p.status = "resolved"
    THEN Resolved(Bool(TRUE))
    ELSE IF InstanceOf(p.value, NotFollowing)
         THEN Resolved(Bool(FALSE))
         ELSE Rejected(p.value)

follows(channel) == AsyncCall("follows", channel, getFollowTo_request(channel))

follows_resume(c) ==
    /\ Resumable(c, "follows", "await")
    /\ Finish(c, follows_classify(ReturnPromise(Awaited(c))))

(***************************************************************************)
(* follow, unfollow.                                                       *)
(***************************************************************************)
getMe_request == Request(ClientRef(_client), "users.getMe", <<>>)

\* follow/unfollow that swallow the failure of getMe.
AfterGetMe_Swallow(c, op) ==
    IF calls[c].reqs[1].response.status = "rejected"
    THEN /\ calls' = [calls EXCEPT ![c].pc = "done", ![c].result = Resolved(Undefined)]
         /\ UNCHANGED <<fetched, _data, _client>>
    ELSE /\ calls' = [calls EXCEPT
                ![c].pc = "await2",
                ![c].reqs = Append(@, Request(calls[c].reqs[1].response.value, op, <<This>>))]
         /\ UNCHANGED <<fetched, _data, _client>>

\* follow with receiver and target swapped: this.followChannel(currentUser).
follow_afterGetMe_Swapped(c) ==
    /\ c \in 1..Len(calls)
    /\ calls[c].method = "follow"
    /\ calls[c].pc = "await"
    /\ Settled(calls[c].reqs[1].response)
    /\ IF calls[c].reqs[1].response.status = "rejected"
       THEN calls' = [calls EXCEPT ![c].pc = "done", ![c].result = calls[c].reqs[1].response]
       ELSE calls' = [calls EXCEPT
                ![c].pc = "await2",
                ![c].reqs = Append(@, Request(This, "followChannel",
                                              <<calls[c].reqs[1].response.value>>))]
    /\ UNCHANGED <<fetched, _data, _client>>

\* After `await this._client.users.getMe()`: a rejection leaves the function;
\* otherwise currentUser.<op>(this) is called and its promise returned.
AfterGetMe(c, op) ==
    IF Awaited(c).status = "rejected"
    THEN Finish(c, Rejected(Awaited(c).value))
    ELSE /\ calls' = [calls EXCEPT
                ![c].pc = "await2",
                ![c].reqs = Append(@, Request(Awaited(c).value, op, <<This>>))]
         /\ UNCHANGED <<fetched, _data, _client>>

follow == AsyncCall("follow", "-", getMe_request)

follow_afterGetMe(c) ==
    /\ Resumable(c, "follow", "await")
    /\ AfterGetMe(c, "followChannel")

follow_return(c) ==
    /\ Resumable(c, "follow", "await2")
    /\ Finish(c, ReturnPromise(Awaited(c)))

unfollow == AsyncCall("unfollow", "-", getMe_request)

unfollow_afterGetMe(c) ==
    /\ Resumable(c, "unfollow", "await")
    /\ AfterGetMe(c, "unfollowChannel")

unfollow_return(c) ==
    /\ Resumable(c, "unfollow", "await2")
    /\ Finish(c, ReturnPromise(Awaited(c)))

(***************************************************************************)
(* The collaborators: a pending request is settled with any outcome its    *)
(* operation can have.                                                     *)
(***************************************************************************)
Respond(c, outcome) ==
    /\ c \in 1..Len(calls)
    /\ calls[c].reqs # <<>>
    /\ Awaited(c) = Pending
    /\ outcome \in Outcomes(calls[c].reqs[Len(calls[c].reqs)].op)
    /\ calls' = [calls EXCEPT ![c].reqs[Len(calls[c].reqs)].response = outcome]
    /\ UNCHANGED <<fetched, _data, _client>>

AllOutcomes == UNION {Outcomes(op) : op \in
    {"channels.getChannel", "getStream", "users.getSubscriptionData",
     "users.getFollowedChannels", "users.getFollowedChannel", "users.getMe",
     "followChannel", "unfollowChannel"}}

Next ==
    \/ Get_cacheKey
    \/ Get_id
    \/ Get_userName
    \/ Get_name
    \/ Get_displayName
    \/ Get_logoUrl
    \/ Call_getChannelPlaceholder
    \/ getChannel
    \/ getStream
    \/ \E channel \in OneChannel : getSubscriptionTo(channel)
    \/ \E channel \in OneChannel : isSubscribedTo(channel)
    \/ \E args \in FollowsArgs : getFollows(args)
    \/ \E channel \in OneChannel : getFollowTo(channel)
    \/ \E channel \in OneChannel : follows(channel)
    \/ follow
    \/ unfollow
    \/ \E c \in 1..MaxCalls : getChannel_return(c)
    \/ \E c \in 1..MaxCalls : getStream_return(c)
    \/ \E c \in 1..MaxCalls : getSubscriptionTo_return(c)
    \/ \E c \in 1..MaxCalls : isSubscribedTo_resume(c)
    \/ \E c \in 1..MaxCalls : getFollows_return(c)
    \/ \E c \in 1..MaxCalls : getFollowTo_return(c)
    \/ \E c \in 1..MaxCalls : follows_resume(c)
    \/ \E c \in 1..MaxCalls : follow_afterGetMe(c)
    \/ \E c \in 1..MaxCalls : follow_return(c)
    \/ \E c \in 1..MaxCalls : unfollow_afterGetMe(c)
    \/ \E c \in 1..MaxCalls : unfollow_return(c)
    \/ \E c \in 1..MaxCalls : \E outcome \in AllOutcomes : Respond(c, outcome)

Spec == Init /\ [][Next]_vars

(***************************************************************************)
(* Scheduling.  A settled promise resumes the function awaiting it: the    *)
(* event loop runs every queued continuation, so each resumption that      *)
(* stays enabled is eventually taken.                                      *)
(***************************************************************************)
Resume(c) ==
    \/ getChannel_return(c)
    \/ getStream_return(c)
    \/ getSubscriptionTo_return(c)
    \/ isSubscribedTo_resume(c)
    \/ getFollows_return(c)
    \/ getFollowTo_return(c)
    \/ follows_resume(c)
    \/ follow_afterGetMe(c)
    \/ follow_return(c)
    \/ unfollow_afterGetMe(c)
    \/ unfollow_return(c)

(***************************************************************************)
(* The object used through its two classification methods only, with any  *)
(* channel argument, under the scheduling above.                           *)
(***************************************************************************)
ClassifyNext ==
    \/ \E channel \in Channels : isSubscribedTo(channel)
    \/ \E channel \in Channels : follows(channel)
    \/ \E c \in 1..MaxCalls : isSubscribedTo_resume(c)
    \/ \E c \in 1..MaxCalls : follows_resume(c)
    \/ \E c \in 1..MaxCalls : \E outcome \in AllOutcomes : Respond(c, outcome)

ClassifySpec ==
    /\ Init
    /\ [][ClassifyNext]_vars
    /\ \A c \in 1..MaxCalls : WF_vars(Resume(c))

(***************************************************************************)
(* Vocabulary of the properties.                                           *)
(***************************************************************************)
CallIds == 1..Len(calls)
Done(c) == calls[c].pc = "done"
Method(c) == calls[c].method
Result(c) == calls[c].result
Reqs(c) == calls[c].reqs
Response(c, i) == calls[c].reqs[i].response
Responses(c) == [i \in 1..Len(calls[c].reqs) |-> calls[c].reqs[i].response]
FailedWith(p, classes) == p.status = "rejected" /\ p.value.type \in classes

(***************************************************************************)
(* C1.  isSubscribedTo(channel) returns true when getSubscriptionData      *)
(* succeeds, false when it fails with NoSubscriptionProgram or             *)
(* NotSubscribed, and fails with the same error for any other error class, *)
(* never returning false.                                                  *)
(***************************************************************************)
C1_IsSubscribedTo ==
    \A c \in CallIds :
        (Method(c) = "isSubscribedTo" /\ Done(c)) =>
            LET r == Response(c, 1) IN
            /\ r.status = "resolved" => Result(c) = Resolved(Bool(TRUE))
            /\ FailedWith(r, {NoSubscriptionProgram, NotSubscribed}) =>
                   Result(c) = Resolved(Bool(FALSE))
            /\ FailedWith(r, ErrorClasses \ {NoSubscriptionProgram, NotSubscribed}) =>
                   Result(c) = Rejected(r.value)

\* One isSubscribedTo call returned false on NotSubscribed, another re-raised
\* the NotFollowing error it was answered with.
C1_Witness ==
    \E c, d \in CallIds :
        /\ Method(c) = "isSubscribedTo" /\ Done(c) /\ calls[c].channel = "channelX"
        /\ Response(c, 1) = Rejected(Error(NotSubscribed))
        /\ Result(c) = Resolved(Bool(FALSE))
        /\ Method(d) = "isSubscribedTo" /\ Done(d) /\ calls[d].channel = "channelY"
        /\ Response(d, 1) = Rejected(Error(NotFollowing))
        /\ Result(d) = Rejected(Error(NotFollowing))

(***************************************************************************)
(* C2.  follows(channel) returns false exactly when getFollowedChannel     *)
(* fails with NotFollowing, true exactly when it succeeds, and fails with  *)
(* the same error for any other error class, NoSubscriptionProgram and     *)
(* NotSubscribed included.                                                 *)
(***************************************************************************)
C2_Follows ==
    \A c \in CallIds :
        (Method(c) = "follows" /\ Done(c)) =>
            LET r == Response(c, 1) IN
            /\ Result(c) = Resolved(Bool(TRUE)) <=> r.status = "resolved"
            /\ Result(c) = Resolved(Bool(FALSE)) <=> FailedWith(r, {NotFollowing})
            /\ FailedWith(r, ErrorClasses \ {NotFollowing}) => Result(c) = Rejected(r.value)

\* One follows call returned false on NotFollowing, another re-raised the
\* NotSubscribed error it was answered with.
C2_Witness ==
    \E c, d \in CallIds :
        /\ Method(c) = "follows" /\ Done(c) /\ calls[c].channel = "channelX"
        /\ Response(c, 1) = Rejected(Error(NotFollowing))
        /\ Result(c) = Resolved(Bool(FALSE))
        /\ Method(d) = "follows" /\ Done(d) /\ calls[d].channel = "channelY"
        /\ Response(d, 1) = Rejected(Error(NotSubscribed))
        /\ Result(d) = Rejected(Error(NotSubscribed))

(***************************************************************************)
(* C3.  follow() first asks the client for the authenticated user          *)
(* (getMe); only after getMe has succeeded does it call that user's        *)
(* followChannel with this object as target; follow() succeeds iff the     *)
(* delegated followChannel succeeds, and settles exactly as it does.       *)
(***************************************************************************)
C3_Follow ==
    \A c \in CallIds :
        Method(c) = "follow" =>
            /\ Len(Reqs(c)) \in {1, 2}
            /\ Reqs(c)[1].op = "users.getMe"
            /\ Reqs(c)[1].receiver = ClientRef(_client)
            /\ Len(Reqs(c)) = 2 =>
                   /\ Response(c, 1).status = "resolved"
                   /\ Reqs(c)[2].receiver = Response(c, 1).value
                   /\ Reqs(c)[2].op = "followChannel"
                   /\ Reqs(c)[2].args = <<This>>
            /\ Done(c) =>
                   /\ Result(c).status = "resolved" <=>
                          (Len(Reqs(c)) = 2 /\ Response(c, 2).status = "resolved")
                   /\ Len(Reqs(c)) = 2 => Result(c) = Response(c, 2)

\* follow() finished successfully through the authenticated user "1".
C3_Witness ==
    \E c \in CallIds :
        /\ Method(c) = "follow" /\ Done(c)
        /\ Response(c, 1) = Resolved(Val("PrivilegedUser", "1"))
        /\ Reqs(c)[2].receiver = Val("PrivilegedUser", "1")
        /\ Reqs(c)[2].args = <<This>>
        /\ Result(c) = Resolved(Val("UserFollow", "f2"))

(***************************************************************************)
(* C4.  When getMe() fails, follow() and unfollow() fail with the error    *)
(* getMe() raised, and no followChannel or unfollowChannel call is made.   *)
(***************************************************************************)
C4_GetMeFails ==
    \A c \in CallIds :
        (Method(c) \in {"follow", "unfollow"} /\ Response(c, 1).status = "rejected") =>
            /\ Len(Reqs(c)) = 1
            /\ calls[c].pc \in {"await", "done"}
            /\ Done(c) => Result(c) = Rejected(Response(c, 1).value)

\* A follow() and an unfollow() both failed on getMe's error.
C4_Witness ==
    \E c, d \in CallIds :
        /\ Method(c) = "follow" /\ Done(c)
        /\ Method(d) = "unfollow" /\ Done(d)
        /\ Response(c, 1) = Rejected(Error(HTTPStatusCodeError))
        /\ Response(d, 1) = Rejected(Error(HTTPStatusCodeError))
        /\ Result(c) = Rejected(Error(HTTPStatusCodeError))
        /\ Result(d) = Rejected(Error(HTTPStatusCodeError))

(***************************************************************************)
(* C5.  getChannelPlaceholder() issues no request and always succeeds,     *)
(* whatever the collaborators are doing; the placeholder carries this      *)
(* object's id and client reference.                                       *)
(***************************************************************************)
C5_Placeholder ==
    /\ Len(calls) < MaxCalls => ENABLED Call_getChannelPlaceholder
    /\ \A c \in CallIds :
           Method(c) = "getChannelPlaceholder" =>
               /\ Done(c)
               /\ Reqs(c) = <<>>
               /\ Result(c).status = "resolved"
               /\ Result(c).value.type = "ChannelPlaceholder"
               /\ Result(c).value.id = fetched.data._id
               /\ Result(c).value.client = fetched.client

\* A placeholder was handed out while another call's request had failed.
C5_Witness ==
    \E c, d \in CallIds :
        /\ Method(c) = "getChannelPlaceholder" /\ Done(c)
        /\ Result(c).value.id = _data._id
        /\ Method(d) = "getChannel"
        /\ Response(d, 1).status = "rejected"

(***************************************************************************)
(* C6.  No method writes the backing record or the client reference: after *)
(* any sequence of calls, succeeded or failed, both are as at construction.*)
(***************************************************************************)
C6_RecordUnchanged ==
    /\ _data = fetched.data
    /\ _client = fetched.client

\* Every call slot is used and finished, one with success, one with failure.
C6_Witness ==
    /\ Len(calls) = MaxCalls
    /\ \A c \in CallIds : Done(c)
    /\ \E c, d \in CallIds :
           /\ Reqs(c) # <<>> /\ Result(c).status = "resolved"
           /\ Reqs(d) # <<>> /\ Result(d).status = "rejected"

(***************************************************************************)
(* C7.  Each getter returns the stored field as it is: id and cacheKey the *)
(* identifier, name and userName the login name, displayName the display   *)
(* name, logoUrl the profile image URL; and repeated reads of one getter   *)
(* return the same value whatever else was called.                         *)
(***************************************************************************)
Getters == {"cacheKey", "id", "userName", "name", "displayName", "logoUrl"}

StoredField(getter) ==
    CASE getter \in {"cacheKey", "id"} -> fetched.data._id
      [] getter \in {"userName", "name"} -> fetched.data.name
      [] getter = "displayName" -> fetched.data.display_name
      [] getter = "logoUrl" -> fetched.data.logo

\* C7: every getter call returned the stored field of the constructed record,
\* and two calls of one getter returned the same value.
C7_Getters ==
    /\ \A c \in CallIds :
           Method(c) \in Getters =>
               Done(c) /\ Result(c) = Resolved(Str(StoredField(Method(c))))
    /\ \A c, d \in CallIds :
           (Method(c) \in Getters /\ Method(d) = Method(c)) => Result(d) = Result(c)

\* displayName was read twice and gave the display name both times, which
\* differs from the login name.
C7_Witness ==
    /\ Len(calls) >= 2
    /\ Method(1) = "displayName" /\ Method(2) = "displayName"
    /\ Result(1) = Resolved(Str(fetched.data.display_name))
    /\ Result(2) = Result(1)
    /\ fetched.data.display_name # fetched.data.name

(***************************************************************************)
(* C8.  getChannel, getStream, getSubscriptionTo, getFollows and           *)
(* getFollowTo are pass-throughs: each makes its one collaborator call and *)
(* settles exactly as that call does, value or error, nothing suppressed   *)
(* or converted.                                                           *)
(***************************************************************************)
PassThroughs == {"getChannel", "getStream", "getSubscriptionTo", "getFollows", "getFollowTo"}

DelegateOp(method) ==
    CASE method = "getChannel" -> "channels.getChannel"
      [] method = "getStream" -> "getStream"
      [] method = "getSubscriptionTo" -> "users.getSubscriptionData"
      [] method = "getFollows" -> "users.getFollowedChannels"
      [] method = "getFollowTo" -> "users.getFollowedChannel"

\* C8: a pass-through method makes exactly its delegate call and settles as
\* that call does.
C8_PassThrough ==
    \A c \in CallIds :
        Method(c) \in PassThroughs =>
            /\ Len(Reqs(c)) = 1
            /\ Reqs(c)[1].op = DelegateOp(Method(c))
            /\ Done(c) => Settled(Result(c)) /\ Result(c) = Response(c, 1)

\* getSubscriptionTo failed with NotSubscribed and getFollowTo with
\* NotFollowing, as their collaborators did.
C8_Witness ==
    \E c, d \in CallIds :
        /\ Method(c) = "getSubscriptionTo" /\ Done(c)
        /\ Response(c, 1) = Rejected(Error(NotSubscribed))
        /\ Result(c) = Rejected(Error(NotSubscribed))
        /\ Method(d) = "getFollowTo" /\ Done(d)
        /\ Response(d, 1) = Rejected(Error(NotFollowing))
        /\ Result(d) = Rejected(Error(NotFollowing))

(***************************************************************************)
(* C9.  With several calls in flight and their responses arriving in any   *)
(* order, a call's result depends only on the responses to its own         *)
(* requests: it stays pending until they are settled, two calls of one     *)
(* method answered alike finish alike; and the backing record is never     *)
(* written, so getters read in between return the construction values.     *)
(***************************************************************************)
C9_Independent ==
    /\ _data = fetched.data
    /\ _client = fetched.client
    /\ \A c \in CallIds :
           /\ Method(c) \in Getters => Result(c).value = Str(StoredField(Method(c)))
           /\ ~Done(c) => Result(c) = Pending
           /\ Settled(Result(c)) => \A i \in 1..Len(Reqs(c)) : Settled(Response(c, i))
    /\ \A c, d \in CallIds :
           (Done(c) /\ Done(d) /\ Method(c) = Method(d) /\ Responses(c) = Responses(d)) =>
               Result(c) = Result(d)

\* Two isSubscribedTo calls overlap: the later one has already finished
\* while the earlier one is still waiting for its answer.
C9_Witness ==
    /\ Len(calls) >= 2
    /\ Method(1) = "isSubscribedTo" /\ Method(2) = "isSubscribedTo"
    /\ ~Done(1) /\ Response(1, 1) = Pending
    /\ Done(2) /\ Result(2) = Resolved(Bool(FALSE))

(***************************************************************************)
(* C10.  isSubscribedTo issues exactly one request, getSubscriptionData for*)
(* (this, channel), and follows exactly one, getFollowedChannel for (this, *)
(* channel); neither asks again, whatever the answer; and each call        *)
(* finishes once its request has been answered.                            *)
(***************************************************************************)
\* The one request of a classification call, and nothing else.
C10_SingleRequest ==
    \A c \in CallIds :
        /\ Method(c) = "isSubscribedTo" =>
               /\ Len(Reqs(c)) = 1
               /\ Reqs(c)[1].receiver = ClientRef(_client)
               /\ Reqs(c)[1].op = "users.getSubscriptionData"
               /\ Reqs(c)[1].args = <<This, Str(calls[c].channel)>>
        /\ Method(c) = "follows" =>
               /\ Len(Reqs(c)) = 1
               /\ Reqs(c)[1].receiver = ClientRef(_client)
               /\ Reqs(c)[1].op = "users.getFollowedChannel"
               /\ Reqs(c)[1].args = <<This, Str(calls[c].channel)>>

Answered(c) ==
    /\ c \in CallIds
    /\ Method(c) \in {"isSubscribedTo", "follows"}
    /\ Settled(Response(c, 1))

Finished(c) == c \in CallIds /\ Done(c) /\ Settled(Result(c))

\* C10: a classification call has always issued exactly its one request, and
\* once that request is answered the call eventually finishes.
C10_OneRequestThenDone ==
    /\ []C10_SingleRequest
    /\ \A c \in 1..MaxCalls : Answered(c) ~> Finished(c)

\* An isSubscribedTo call for channelY answered with an unclassified error
\* and a follows call for channelX answered with a classified one have both
\* finished, each after its one request.
C10_Witness ==
    \E c, d \in CallIds :
        /\ Method(c) = "isSubscribedTo" /\ Finished(c)
        /\ Reqs(c)[1].args = <<This, Str("channelY")>>
        /\ Response(c, 1) = Rejected(Error(HTTPStatusCodeError))
        /\ Method(d) = "follows" /\ Finished(d)
        /\ Reqs(d)[1].args = <<This, Str("channelX")>>
        /\ Response(d, 1) = Rejected(Error(NotFollowing))

====
